---- MODULE Spec2Model ----
(***************************************************************************)
(* Model of the EC2 instance lifecycle tasks of fabfile.py: create_server, *)
(* up, down, destroy and status, the local state file data.json, the       *)
(* ssh readiness wait, and the EC2 provider as the tasks see it through    *)
(* boto.  Every task is a sequence of steps (one action per provider call  *)
(* or loop iteration); the provider moves its instances through their      *)
(* transitional states between the steps.                                  *)
(***************************************************************************)
EXTENDS Integers, Sequences, FiniteSets, TLC

\* ---------------------------------------------------------------- bounds
MaxInstances == 2      \* instances the provider account can hold
MaxAddrs == 2          \* distinct addresses the provider hands out
MaxCount == 2          \* per-operation call counters saturate here
MaxPolls == 2          \* per-operation poll counters saturate here
MaxTimeout == 4        \* largest timeout wait_for_ssh is called with

\* ------------------------------------------------------- program constants
DefaultSshTimeout == 600

IdNames == <<"i-1", "i-2", "i-3", "i-4">>
VolNames == <<"vol-1", "vol-2", "vol-3", "vol-4">>
AddrNames == <<"10.0.0.1", "10.0.0.2", "10.0.0.3", "10.0.0.4">>
DnsNames == <<"ec2-10-0-0-1", "ec2-10-0-0-2", "ec2-10-0-0-3", "ec2-10-0-0-4">>

Slots == 1..MaxInstances
PyNone == "None"

Inc(n, max) == IF n < max THEN n + 1 ELSE max

\* ------------------------------------------------------------- state file
\* JSON text of data.json: a sequence of <<key, token>> members, a token
\* being <<"null", "">> or <<"string", s>>.
Keys == <<"public_dns_name", "id", "ip_address", "architecture", "state", "volume">>

JsonEnc(v) == IF v = PyNone THEN <<"null", "">> ELSE <<"string", v>>

\* a decoder that reads null as the empty string
JsonDec_NullAsEmpty(t) == IF t[1] = "null" THEN "" ELSE t[2]

JsonDec(t) == IF t[1] = "null" THEN PyNone ELSE t[2]

JsonDump(d) == [k \in 1..Len(Keys) |-> <<Keys[k], JsonEnc(d[Keys[k]])>>]

JsonMember(doc, key) == doc[CHOOSE k \in 1..Len(doc) : doc[k][1] = key][2]

JsonLoad(doc) == [key \in {doc[k][1] : k \in 1..Len(doc)} |-> JsonDec(JsonMember(doc, key))]

NoFile == [exists |-> FALSE, doc |-> <<>>]

IsThereState(f) == f.exists

LoadStateFromDisk(f) == JsonLoad(f.doc)

NoData == [key \in {Keys[k] : k \in 1..Len(Keys)} |-> ""]

\* --------------------------------------------------------------- provider
FreeSlot == [state |-> "none", addr |-> 0, vol |-> "none"]

SlotOf(id) == IF \E n \in Slots : IdNames[n] = id
              THEN CHOOSE n \in Slots : IdNames[n] = id
              ELSE 0

\* an id the provider recognizes: launched and not yet purged
Known(insts, n) == n \in Slots /\ insts[n].state \notin {"none", "gone"}

IpOf(i) == IF i.addr = 0 THEN PyNone ELSE AddrNames[i.addr]

DnsOf(i) == IF i.addr = 0 THEN "" ELSE DnsNames[i.addr]

\* the boto Instance object as last refreshed from the provider
NoInstance == [n |-> 0, state |-> "", ip_address |-> PyNone, public_dns_name |-> ""]

Snapshot(insts, n) == [n |-> n, state |-> insts[n].state,
                       ip_address |-> IpOf(insts[n]),
                       public_dns_name |-> DnsOf(insts[n])]

\* get_ec2_info: the dictionary built from a describe of instance n; volOk
\* is whether the volume lookup returned an attached volume without raising
GetEc2Info(insts, n, volOk) ==
    [key \in {Keys[k] : k \in 1..Len(Keys)} |->
        CASE key = "public_dns_name" -> DnsOf(insts[n])
          [] key = "id" -> IdNames[n]
          [] key = "ip_address" -> IpOf(insts[n])
          [] key = "architecture" -> "x86_64"
          [] key = "state" -> insts[n].state
          [] key = "volume" -> IF volOk /\ insts[n].vol = "attached"
                               THEN VolNames[n] ELSE ""]

\* wait_for_ssh(host, port, timeout): firstOk is the number of the first
\* probe that would connect (0: none ever does)
WaitForSsh(firstOk, timeout) ==
    IF firstOk \in 1..(timeout - 1) THEN "True" ELSE PyNone


\* provider requests: the instance table after the request
RunRequest(insts, n) ==
    [insts EXCEPT ![n] = [state |-> "pending", addr |-> 0, vol |-> "attached"]]

StartAccepts(insts, n) == Known(insts, n) /\ insts[n].state \in {"stopped", "running"}

StartRequest(insts, n) ==
    IF insts[n].state = "stopped" THEN [insts EXCEPT ![n].state = "pending"] ELSE insts

StopAccepts(insts, n) ==
    Known(insts, n) /\ insts[n].state \in {"running", "stopping", "stopped"}

StopRequest(insts, n) ==
    IF insts[n].state = "running" THEN [insts EXCEPT ![n].state = "stopping"] ELSE insts

TerminateAccepts(insts, n) == Known(insts, n)

TerminateRequest(insts, n) ==
    IF insts[n].state \in {"pending", "running", "stopping", "stopped"}
    THEN [insts EXCEPT ![n].state = "shutting-down"]
    ELSE insts

DeleteVolumeAccepts(insts, v) ==
    \E n \in Slots : VolNames[n] = v /\ insts[n].vol = "detached"

DeleteVolumeRequest(insts, v) ==
    [n \in Slots |-> IF VolNames[n] = v THEN [insts[n] EXCEPT !.vol = "none"] ELSE insts[n]]

\* ------------------------------------------------------------------ state
VARIABLES
    instances,   \* provider: slot -> [state, addr, vol]
    file,        \* data.json: [exists, doc]
    pc,          \* position of the running task ("idle": none running)
    op,          \* the task running, or the last one run
    result,      \* "none" | "running" | "ok" | "error" for op
    retval,      \* value returned by op when result = "ok"
    instance,    \* local: the boto Instance object of the task
    data,        \* local: the dictionary of the task
    trace        \* history of the current task (observation only)

vars == <<instances, file, pc, op, result, retval, instance, data, trace>>

NoCalls == [launch |-> 0, tag |-> 0, start |-> 0, stop |-> 0, terminate |-> 0,
            delete_volume |-> 0, describe |-> 0, images |-> 0]

\* the task run before and its result, kept for a create() or a destroy()
\* that returned
PrevOf(o, r) ==
    IF r = "ok" /\ o \in {"create", "destroy"} THEN <<o, r>> ELSE <<"other", r>>

\* the history a task starts with: f the file it finds, o and r the task run
\* before it and its result, had whether that one found a file, failed
\* whether some task so far ended in an exception; stale is whether the id
\* in the file it finds is one the provider no longer knows
NewTrace(f, o, r, had, failed) ==
    [pre |-> f, prev |-> PrevOf(o, r), prevHad |-> had /\ PrevOf(o, r)[1] = "destroy",
     calls |-> NoCalls,
     polls |-> 0, tick |-> 0, pendingObs |-> 0,
     ssh |-> "unset", probeHost |-> "", probeObs |-> "",
     vol |-> "", delVol |-> "", delObs |-> "",
     saved |-> FALSE, failed |-> failed,
     stale |-> f.exists /\ ~Known(instances, SlotOf(JsonLoad(f.doc)["id"])),
     tagFailed |-> FALSE, connHost |-> "", connReported |-> FALSE,
     loaded |-> NoData, probes |-> 0, connected |-> 0]

\* polls counts the iterations of the task's loop up to MaxPolls, tick is
\* their parity
Called(t, c) == [t EXCEPT !.calls[c] = Inc(@, MaxCount)]

Init ==
    /\ instances = [n \in Slots |-> FreeSlot]
    /\ file = NoFile
    /\ pc = "idle"
    /\ op = "none"
    /\ result = "none"
    /\ retval = PyNone
    /\ instance = NoInstance
    /\ data = NoData
    /\ trace = NewTrace(NoFile, "none", "none", FALSE, FALSE)

\* a task starts and goes to its first step
Enter(name, label) ==
    /\ pc = "idle"
    /\ pc' = label
    /\ op' = name
    /\ result' = "running"
    /\ retval' = PyNone
    /\ trace' = NewTrace(file, op, result, trace.pre.exists, trace.failed)

\* a task starts and returns v at once
EnterReturn(name, v) ==
    /\ pc = "idle"
    /\ pc' = "idle"
    /\ op' = name
    /\ result' = "ok"
    /\ retval' = v
    /\ trace' = NewTrace(file, op, result, trace.pre.exists, trace.failed)

\* the running task moves to its next step
Step(label, t) ==
    /\ pc' = label
    /\ trace' = t
    /\ UNCHANGED <<op, result, retval>>

\* the running task returns v
Return(v, t) ==
    /\ pc' = "idle"
    /\ result' = "ok"
    /\ retval' = v
    /\ instance' = NoInstance
    /\ data' = NoData
    /\ trace' = t
    /\ UNCHANGED op

\* an exception leaves the running task
Raise(t) ==
    /\ pc' = "idle"
    /\ result' = "error"
    /\ retval' = PyNone
    /\ instance' = NoInstance
    /\ data' = NoData
    /\ trace' = [t EXCEPT !.failed = TRUE]
    /\ UNCHANGED op

\* ------------------------------------------------------------ create_server
\* create_server() without the is_there_state() test
CreateServer_NoStateTest ==
    /\ Enter("create", "cs_images")
    /\ UNCHANGED <<instances, file, instance, data>>

\* create_server(), entry: an existing data.json ends it at once
CreateServer ==
    /\ IF IsThereState(file)
       THEN EnterReturn("create", "True")
       ELSE Enter("create", "cs_images")
    /\ UNCHANGED <<instances, file, instance, data>>

\* conn.get_all_images(env.ec2_ami)[0]
CsGetImage ==
    /\ pc = "cs_images"
    /\ \/ Step("cs_run", Called(trace, "images")) /\ UNCHANGED <<instance, data>>
       \/ Raise(Called(trace, "images"))
    /\ UNCHANGED <<instances, file>>

\* image.run(...): the reservation's instance, or a provider error
CsRun ==
    /\ pc = "cs_run"
    /\ \/ \E n \in Slots :
            /\ instances[n].state = "none"
            /\ \A m \in Slots : m < n => instances[m].state # "none"
            /\ instances' = RunRequest(instances, n)
            /\ instance' = Snapshot(instances', n)
            /\ Step("cs_tags", Called(trace, "launch"))
            /\ UNCHANGED data
       \/ Raise(Called(trace, "launch")) /\ UNCHANGED instances
    /\ UNCHANGED file

\* conn.create_tags([instance.id], ...)
CsCreateTags ==
    /\ pc = "cs_tags"
    /\ \/ Step("cs_poll", Called(trace, "tag")) /\ UNCHANGED <<instance, data>>
       \/ Raise([Called(trace, "tag") EXCEPT !.tagFailed = TRUE])
    /\ UNCHANGED <<instances, file>>

\* instance.update(): the object refreshed from the provider
Update(inst) == Snapshot(instances, inst.n)

\* while instance.state == u'pending': sleep(10); instance.update()
CsPoll ==
    /\ pc = "cs_poll"
    /\ instance.state = "pending"
    /\ LET t == [trace EXCEPT !.polls = Inc(@, MaxPolls), !.tick = 1 - @,
                              !.pendingObs = Inc(@, MaxPolls)]
       IN \/ /\ Known(instances, instance.n)
             /\ instance' = Update(instance)
             /\ Step("cs_poll", t)
             /\ UNCHANGED data
          \/ Raise(t)
    /\ UNCHANGED <<instances, file>>

\* is_ssh_available can connect: the host is the address of a running instance
Reachable(insts, host) ==
    \E n \in Slots : /\ insts[n].state = "running"
                     /\ host \in {IpOf(insts[n]), DnsOf(insts[n])}
                     /\ host \notin {PyNone, ""}

\* the probes that may be the first to connect, 0 standing for none
FirstOks(insts, host, timeout) ==
    IF Reachable(insts, host) THEN 0..(timeout - 1) ELSE {0}

\* what wait_for_ssh(host, 22, timeout) may return
SshOutcomes(insts, host, timeout) ==
    {WaitForSsh(k, timeout) : k \in FirstOks(insts, host, timeout)}

\* the loop is left; wait_for_ssh(instance.public_dns_name)
CsWaitForSsh ==
    /\ pc = "cs_poll"
    /\ instance.state # "pending"
    /\ \E r \in SshOutcomes(instances, instance.public_dns_name, DefaultSshTimeout) :
         Step("cs_save", [trace EXCEPT !.ssh = r,
                                       !.probeHost = instance.public_dns_name,
                                       !.probeObs = instance.state])
    /\ UNCHANGED <<instances, file, instance, data>>

\* save_state_locally(instance_id): describe, then write data.json
SaveStateLocally(n, volOk) ==
    [exists |-> TRUE, doc |-> JsonDump(GetEc2Info(instances, n, volOk))]

\* create_server opening data.json before the describe of save_state_locally
CsSave_OpenFirst ==
    /\ pc = "cs_save"
    /\ \/ /\ Known(instances, instance.n)
          /\ \E volOk \in BOOLEAN : file' = SaveStateLocally(instance.n, volOk)
          /\ Return(PyNone, [Called(trace, "describe") EXCEPT !.saved = TRUE])
       \/ Raise(Called(trace, "describe")) /\ file' = [exists |-> TRUE, doc |-> <<>>]
    /\ UNCHANGED instances

\* save_state_locally(instance.id), the last statement of create_server
CsSave ==
    /\ pc = "cs_save"
    /\ \/ /\ Known(instances, instance.n)
          /\ \E volOk \in BOOLEAN : file' = SaveStateLocally(instance.n, volOk)
          /\ Return(PyNone, [Called(trace, "describe") EXCEPT !.saved = TRUE])
       \/ Raise(Called(trace, "describe")) /\ UNCHANGED file
    /\ UNCHANGED instances

\* ----------------------------------------------------------------------- up
\* up() that returns when there is no data.json
Up_NoCreate ==
    /\ IF IsThereState(file)
       THEN Enter("up", "up_start") /\ data' = LoadStateFromDisk(file)
       ELSE EnterReturn("up", PyNone) /\ UNCHANGED data
    /\ UNCHANGED <<instances, file, instance>>

\* up(), entry: without data.json it is create_server(); otherwise the state
\* is loaded from disk
Up ==
    /\ IF IsThereState(file)
       THEN Enter("up", "up_start") /\ data' = LoadStateFromDisk(file)
       ELSE Enter("up", "cs_images") /\ UNCHANGED data
    /\ UNCHANGED <<instances, file, instance>>

\* up() starting the first instance of the account instead of data['id']
UpStart_FirstInstance ==
    /\ pc = "up_start"
    /\ \/ \E n \in Slots :
            /\ StartAccepts(instances, n)
            /\ \A m \in Slots : m < n => ~StartAccepts(instances, m)
            /\ instances' = StartRequest(instances, n)
            /\ instance' = Snapshot(instances', n)
            /\ Step("up_poll", Called(trace, "start"))
            /\ UNCHANGED data
       \/ Raise(Called(trace, "start")) /\ UNCHANGED instances
    /\ UNCHANGED file

\* conn.start_instances(instance_ids=[data['id']])[0]
UpStart ==
    /\ pc = "up_start"
    /\ LET n == SlotOf(data["id"])
       IN \/ /\ StartAccepts(instances, n)
             /\ instances' = StartRequest(instances, n)
             /\ instance' = Snapshot(instances', n)
             /\ Step("up_poll", Called(trace, "start"))
             /\ UNCHANGED data
          \/ Raise(Called(trace, "start")) /\ UNCHANGED instances
    /\ UNCHANGED file

\* while instance.state != "running": sleep(10); instance.update()
UpPoll ==
    /\ pc = "up_poll"
    /\ instance.state # "running"
    /\ LET t == [trace EXCEPT !.polls = Inc(@, MaxPolls), !.tick = 1 - @]
       IN \/ /\ Known(instances, instance.n)
             /\ instance' = Update(instance)
             /\ Step("up_poll", t)
             /\ UNCHANGED data
          \/ Raise(t)
    /\ UNCHANGED <<instances, file>>

\* the loop is left; data = get_ec2_info(data['id'])
UpGetInfo ==
    /\ pc = "up_poll"
    /\ instance.state = "running"
    /\ LET n == SlotOf(data["id"])
       IN \/ /\ Known(instances, n)
             /\ \E volOk \in BOOLEAN : data' = GetEc2Info(instances, n, volOk)
             /\ Step("up_ssh", Called(trace, "describe"))
             /\ UNCHANGED instance
          \/ Raise(Called(trace, "describe"))
    /\ UNCHANGED <<instances, file>>

\* up() probing the address kept in data.json instead of the described one
UpWaitForSsh_StoredAddress ==
    /\ pc = "up_ssh"
    /\ LET host == LoadStateFromDisk(file)["ip_address"]
       IN \E r \in SshOutcomes(instances, host, DefaultSshTimeout) :
            Step("up_save", [trace EXCEPT !.ssh = r,
                                          !.probeHost = host,
                                          !.probeObs = instance.state])
    /\ UNCHANGED <<instances, file, instance, data>>

\* wait_for_ssh(data['ip_address'])
UpWaitForSsh ==
    /\ pc = "up_ssh"
    /\ \E r \in SshOutcomes(instances, data["ip_address"], DefaultSshTimeout) :
         Step("up_save", [trace EXCEPT !.ssh = r,
                                       !.probeHost = data["ip_address"],
                                       !.probeObs = instance.state])
    /\ UNCHANGED <<instances, file, instance, data>>

\* save_state_locally(instance.id); env.hosts = data['ip_address']
UpSave ==
    /\ pc = "up_save"
    /\ \/ /\ Known(instances, instance.n)
          /\ \E volOk \in BOOLEAN : file' = SaveStateLocally(instance.n, volOk)
          /\ Step("up_print", [Called(trace, "describe") EXCEPT !.saved = TRUE])
          /\ UNCHANGED <<instance, data>>
       \/ Raise(Called(trace, "describe")) /\ UNCHANGED file
    /\ UNCHANGED instances

\* print_ec2_info(): load the state, describe the instance, print
PrintEc2Info(t) ==
    IF IsThereState(file)
    THEN \/ /\ Known(instances, SlotOf(LoadStateFromDisk(file)["id"]))
            /\ Return(PyNone, Called(t, "describe"))
         \/ Raise(Called(t, "describe"))
    ELSE Return(PyNone, t)

\* print_ec2_info(), the last statement of up()
UpPrint ==
    /\ pc = "up_print"
    /\ PrintEc2Info(trace)
    /\ UNCHANGED <<instances, file>>

\* --------------------------------------------------------------------- down
\* down() without the is_there_state() test: False['id'] raises
Down_NoStateTest ==
    /\ IF IsThereState(file)
       THEN Enter("down", "down_stop") /\ data' = LoadStateFromDisk(file)
       ELSE /\ pc = "idle"
            /\ pc' = "idle"
            /\ op' = "down"
            /\ result' = "error"
            /\ retval' = PyNone
            /\ trace' = [NewTrace(file, op, result, trace.pre.exists, trace.failed)
                            EXCEPT !.failed = TRUE]
            /\ UNCHANGED data
    /\ UNCHANGED <<instances, file, instance>>

\* down(), entry: without data.json it returns False
Down ==
    /\ IF IsThereState(file)
       THEN Enter("down", "down_stop") /\ data' = LoadStateFromDisk(file)
       ELSE EnterReturn("down", "False") /\ UNCHANGED data
    /\ UNCHANGED <<instances, file, instance>>

\* conn.stop_instances(instance_ids=[data['id']])[0]
DownStop ==
    /\ pc = "down_stop"
    /\ LET n == SlotOf(data["id"])
       IN \/ /\ StopAccepts(instances, n)
             /\ instances' = StopRequest(instances, n)
             /\ instance' = Snapshot(instances', n)
             /\ Step("down_poll", Called(trace, "stop"))
             /\ UNCHANGED data
          \/ Raise(Called(trace, "stop")) /\ UNCHANGED instances
    /\ UNCHANGED file

\* while instance.state != "stopped": sleep(10); instance.update()
DownPoll ==
    /\ pc = "down_poll"
    /\ instance.state # "stopped"
    /\ LET t == [trace EXCEPT !.polls = Inc(@, MaxPolls), !.tick = 1 - @]
       IN \/ /\ Known(instances, instance.n)
             /\ instance' = Update(instance)
             /\ Step("down_poll", t)
             /\ UNCHANGED data
          \/ Raise(t)
    /\ UNCHANGED <<instances, file>>

\* the loop is left and down() ends
DownEnd ==
    /\ pc = "down_poll"
    /\ instance.state = "stopped"
    /\ Return(PyNone, trace)
    /\ UNCHANGED <<instances, file>>

\* ------------------------------------------------------------------ destroy
\* destroy(), entry: without data.json it returns True
Destroy ==
    /\ IF IsThereState(file)
       THEN Enter("destroy", "de_info") /\ data' = LoadStateFromDisk(file)
       ELSE EnterReturn("destroy", "True") /\ UNCHANGED data
    /\ UNCHANGED <<instances, file, instance>>

\* data = get_ec2_info(_state['id'])
DeGetInfo ==
    /\ pc = "de_info"
    /\ LET n == SlotOf(data["id"])
       IN \/ /\ Known(instances, n)
             /\ \E volOk \in BOOLEAN : data' = GetEc2Info(instances, n, volOk)
             /\ Step("de_term", [Called(trace, "describe") EXCEPT !.vol = data'["volume"]])
             /\ UNCHANGED instance
          \/ Raise(Called(trace, "describe"))
    /\ UNCHANGED <<instances, file>>

\* conn.terminate_instances(instance_ids=[data['id']])[0]
DeTerminate ==
    /\ pc = "de_term"
    /\ LET n == SlotOf(data["id"])
       IN \/ /\ TerminateAccepts(instances, n)
             /\ instances' = TerminateRequest(instances, n)
             /\ instance' = Snapshot(instances', n)
             /\ Step("de_poll", Called(trace, "terminate"))
             /\ UNCHANGED data
          \/ Raise(Called(trace, "terminate")) /\ UNCHANGED instances
    /\ UNCHANGED file

\* destroy() whose loop takes shutting-down for terminated
DePoll_UntilShuttingDown ==
    /\ pc = "de_poll"
    /\ \/ /\ instance.state \notin {"shutting-down", "terminated"}
          /\ LET t == [trace EXCEPT !.polls = Inc(@, MaxPolls), !.tick = 1 - @]
             IN \/ /\ Known(instances, instance.n)
                   /\ instance' = Update(instance)
                   /\ Step("de_poll", t)
                   /\ UNCHANGED data
                \/ Raise(t)
       \/ /\ instance.state = "shutting-down"
          /\ instance' = [instance EXCEPT !.state = "terminated"]
          /\ Step("de_poll", trace)
          /\ UNCHANGED data
    /\ UNCHANGED <<instances, file>>

\* while instance.state != "terminated": sleep(10); instance.update()
DePoll ==
    /\ pc = "de_poll"
    /\ instance.state # "terminated"
    /\ LET t == [trace EXCEPT !.polls = Inc(@, MaxPolls), !.tick = 1 - @]
       IN \/ /\ Known(instances, instance.n)
             /\ instance' = Update(instance)
             /\ Step("de_poll", t)
             /\ UNCHANGED data
          \/ Raise(t)
    /\ UNCHANGED <<instances, file>>

\* destroy() deleting the volume without waiting for the terminated state
DeDeleteVolume_NoWait ==
    /\ pc = "de_poll"
    /\ IF data["volume"] # ""
       THEN LET t == [Called(trace, "delete_volume") EXCEPT !.delObs = instance.state,
                                                              !.delVol = data["volume"]]
            IN \/ /\ DeleteVolumeAccepts(instances, data["volume"])
                  /\ instances' = DeleteVolumeRequest(instances, data["volume"])
                  /\ Step("de_unlink", t)
                  /\ UNCHANGED <<instance, data>>
               \/ Raise(t) /\ UNCHANGED instances
       ELSE Step("de_unlink", trace) /\ UNCHANGED <<instances, instance, data>>
    /\ UNCHANGED file

\* the loop is left; volume = data['volume']; if volume: conn.delete_volume(volume)
DeDeleteVolume ==
    /\ pc = "de_poll"
    /\ instance.state = "terminated"
    /\ IF data["volume"] # ""
       THEN LET t == [Called(trace, "delete_volume") EXCEPT !.delObs = instance.state,
                                                              !.delVol = data["volume"]]
            IN \/ /\ DeleteVolumeAccepts(instances, data["volume"])
                  /\ instances' = DeleteVolumeRequest(instances, data["volume"])
                  /\ Step("de_unlink", t)
                  /\ UNCHANGED <<instance, data>>
               \/ Raise(t) /\ UNCHANGED instances
       ELSE Step("de_unlink", trace) /\ UNCHANGED <<instances, instance, data>>
    /\ UNCHANGED file

\* destroy() ending without the unlink
DeUnlink_Skipped ==
    /\ pc = "de_unlink"
    /\ file' = file
    /\ Return(PyNone, trace)
    /\ UNCHANGED instances

\* os.unlink('data.json')
DeUnlink ==
    /\ pc = "de_unlink"
    /\ file' = NoFile
    /\ Return(PyNone, trace)
    /\ UNCHANGED instances

\* ------------------------------------------------------------------- status
\* status() that writes the describe it prints back to data.json
Status_Saves ==
    /\ pc = "idle"
    /\ op' = "status"
    /\ LET t == NewTrace(file, op, result, trace.pre.exists, trace.failed)
       IN IF IsThereState(file)
          THEN \/ /\ Known(instances, SlotOf(LoadStateFromDisk(file)["id"]))
                  /\ result' = "ok"
                  /\ trace' = Called(t, "describe")
                  /\ \E volOk \in BOOLEAN :
                        file' = SaveStateLocally(SlotOf(LoadStateFromDisk(file)["id"]), volOk)
               \/ /\ result' = "error"
                  /\ trace' = [Called(t, "describe") EXCEPT !.failed = TRUE]
                  /\ UNCHANGED file
          ELSE result' = "ok" /\ trace' = t /\ UNCHANGED file
    /\ UNCHANGED <<instances, pc, retval, instance, data>>

\* status(): print_ec2_info()
Status ==
    /\ pc = "idle"
    /\ op' = "status"
    /\ LET t == NewTrace(file, op, result, trace.pre.exists, trace.failed)
       IN IF IsThereState(file)
          THEN \/ /\ Known(instances, SlotOf(LoadStateFromDisk(file)["id"]))
                  /\ result' = "ok"
                  /\ trace' = Called(t, "describe")
               \/ /\ result' = "error"
                  /\ trace' = [Called(t, "describe") EXCEPT !.failed = TRUE]
          ELSE result' = "ok" /\ trace' = t
    /\ UNCHANGED <<instances, file, pc, retval, instance, data>>

\* ------------------------------------------------------------- rsync, ssh
\* the provider reports host as the address of an instance
Reported(insts, host) ==
    \E n \in Slots : Known(insts, n) /\ host # PyNone /\ host = IpOf(insts[n])

\* local('rsync ... user@host:') and local('ssh ... user@host'): the command
\* run against the ip_address of data.json; a task without data.json fails
\* on False['ip_address']
ConnectStored(name) ==
    /\ pc = "idle"
    /\ op' = name
    /\ LET t == NewTrace(file, op, result, trace.pre.exists, trace.failed)
       IN IF IsThereState(file)
          THEN LET host == LoadStateFromDisk(file)["ip_address"]
                   u == [t EXCEPT !.connHost = host,
                                  !.connReported = Reported(instances, host)]
               IN \/ /\ Reachable(instances, host)
                     /\ result' = "ok"
                     /\ trace' = u
                  \/ /\ result' = "error"
                     /\ trace' = [u EXCEPT !.failed = TRUE]
          ELSE /\ result' = "error"
               /\ trace' = [t EXCEPT !.failed = TRUE]
    /\ UNCHANGED <<instances, file, pc, retval, instance, data>>

\* rsync(): sourcePath is whether SOURCE_PATH is set; without it exit(1)
Rsync(sourcePath) ==
    IF sourcePath
    THEN ConnectStored("rsync")
    ELSE /\ pc = "idle"
         /\ op' = "rsync"
         /\ result' = "error"
         /\ trace' = [NewTrace(file, op, result, trace.pre.exists, trace.failed)
                         EXCEPT !.failed = TRUE]
         /\ UNCHANGED <<instances, file, pc, retval, instance, data>>

\* ssh(*cli)
Ssh == ConnectStored("ssh")

\* ---------------------------------------------------------------- provider
\* the provider completes a transition of instance n
ProviderProgress(n) ==
    /\ \/ /\ instances[n].state = "pending"
          /\ \E a \in 1..MaxAddrs :
               instances' = [instances EXCEPT ![n].state = "running", ![n].addr = a]
       \/ /\ instances[n].state = "pending"
          /\ \E v \in {"detached", "none"} :
               instances' = [instances EXCEPT ![n] = [state |-> "terminated", addr |-> 0, vol |-> v]]
       \/ /\ instances[n].state = "stopping"
          /\ instances' = [instances EXCEPT ![n].state = "stopped", ![n].addr = 0]
       \/ /\ instances[n].state = "shutting-down"
          /\ \E v \in {"detached", "none"} :
               instances' = [instances EXCEPT ![n] = [state |-> "terminated", addr |-> 0,
                                 vol |-> IF instances[n].vol = "attached" THEN v ELSE instances[n].vol]]
    /\ UNCHANGED <<file, pc, op, result, retval, instance, data, trace>>

\* the provider purges a terminated instance: its id is no longer known
ProviderForget(n) ==
    /\ instances[n].state = "terminated"
    /\ instances' = [instances EXCEPT ![n].state = "gone"]
    /\ UNCHANGED <<file, pc, op, result, retval, instance, data, trace>>

Next ==
    \/ CreateServer
    \/ CsGetImage
    \/ CsRun
    \/ CsCreateTags
    \/ CsPoll
    \/ CsWaitForSsh
    \/ CsSave
    \/ Up
    \/ UpStart
    \/ UpPoll
    \/ UpGetInfo
    \/ UpWaitForSsh
    \/ UpSave
    \/ UpPrint
    \/ Down
    \/ DownStop
    \/ DownPoll
    \/ DownEnd
    \/ Destroy
    \/ DeGetInfo
    \/ DeTerminate
    \/ DePoll
    \/ DeDeleteVolume
    \/ DeUnlink
    \/ Status
    \/ \E sourcePath \in BOOLEAN : Rsync(sourcePath)
    \/ Ssh
    \/ \E n \in Slots : ProviderProgress(n)
    \/ \E n \in Slots : ProviderForget(n)

Spec == Init /\ [][Next]_vars

\* the running task always takes its next step; the provider is not obliged
\* to complete a transition
TaskStep ==
    \/ CsGetImage \/ CsRun \/ CsCreateTags \/ CsPoll \/ CsWaitForSsh \/ CsSave
    \/ UpStart \/ UpPoll \/ UpGetInfo \/ UpWaitForSsh \/ UpSave \/ UpPrint
    \/ DownStop \/ DownPoll \/ DownEnd
    \/ DeGetInfo \/ DeTerminate \/ DePoll \/ DeDeleteVolume \/ DeUnlink

FairSpec == Spec /\ WF_vars(TaskStep)

\* ------------------------------------------------- the state file alone
\* save_state_locally and load_state_from_disk step by step, with the process
\* stopping at any point of the save: describe, open('data.json', 'w') that
\* truncates the file, json.dump that writes it member by member.

\* what the provider may report of one instance
SlotRecords ==
    {[state |-> "pending", addr |-> 0, vol |-> "attached"],
     [state |-> "stopped", addr |-> 0, vol |-> "attached"]}
    \cup {[state |-> st, addr |-> a, vol |-> "attached"] :
             st \in {"running", "stopping", "shutting-down"}, a \in 1..MaxAddrs}
    \cup {[state |-> "terminated", addr |-> 0, vol |-> v] : v \in {"detached", "none"}}

StoreTables == {[n \in Slots |-> IF n = 1 THEN r ELSE FreeSlot] : r \in SlotRecords}

\* the files an earlier save may have left
StoredFiles ==
    {NoFile} \cup {[exists |-> TRUE, doc |-> JsonDump(GetEc2Info(tbl, 1, volOk))] :
                      tbl \in StoreTables, volOk \in BOOLEAN}

StoreInit ==
    /\ instances \in StoreTables
    /\ file \in StoredFiles
    /\ pc = "sv_begin"
    /\ op = "save"
    /\ result = "running"
    /\ retval = PyNone
    /\ instance = NoInstance
    /\ data = NoData
    /\ trace = [NewTrace(file, "none", "none", FALSE, FALSE) EXCEPT !.stale = FALSE]

\* data = get_ec2_info(instance_id)
SvDescribe ==
    /\ pc = "sv_begin"
    /\ \E volOk \in BOOLEAN : data' = GetEc2Info(instances, 1, volOk)
    /\ pc' = "sv_open"
    /\ UNCHANGED <<instances, file, op, result, retval, instance, trace>>

\* open('data.json', 'w'): the file exists and is empty
SvOpen ==
    /\ pc = "sv_open"
    /\ file' = [exists |-> TRUE, doc |-> <<>>]
    /\ pc' = "sv_write"
    /\ UNCHANGED <<instances, op, result, retval, instance, data, trace>>

\* json.dump(data, f): the next member reaches the file; after the last one
\* the file is closed
SvWrite ==
    /\ pc = "sv_write"
    /\ LET k == Len(file.doc) + 1
       IN /\ file' = [file EXCEPT !.doc = Append(@, JsonDump(data)[k])]
          /\ IF k = Len(Keys)
             THEN /\ pc' = "sv_closed"
                  /\ result' = "ok"
                  /\ trace' = [trace EXCEPT !.saved = TRUE]
             ELSE UNCHANGED <<pc, result, trace>>
    /\ UNCHANGED <<instances, op, retval, instance, data>>

\* the process stops in the middle of save_state_locally
SvCrash ==
    /\ pc \in {"sv_open", "sv_write"}
    /\ pc' = "sv_crashed"
    /\ result' = "error"
    /\ UNCHANGED <<instances, file, op, retval, instance, data, trace>>

\* load_state_from_disk() in a later run: False without the file, the parsed
\* dictionary otherwise, ValueError on a document that is not complete
SvLoad ==
    /\ pc \in {"sv_begin", "sv_closed", "sv_crashed"}
    /\ pc' = "sv_loaded"
    /\ op' = "load"
    /\ IF ~IsThereState(file)
       THEN result' = "ok" /\ retval' = "False" /\ UNCHANGED trace
       ELSE IF Len(file.doc) = Len(Keys)
            THEN /\ result' = "ok"
                 /\ retval' = "dict"
                 /\ trace' = [trace EXCEPT !.loaded = LoadStateFromDisk(file)]
            ELSE result' = "error" /\ retval' = PyNone /\ UNCHANGED trace
    /\ UNCHANGED <<instances, file, instance, data>>

StoreNext == SvDescribe \/ SvOpen \/ SvWrite \/ SvCrash \/ SvLoad

StoreSpec == StoreInit /\ [][StoreNext]_vars

\* ------------------------------------------------------ wait_for_ssh alone
\* wait_for_ssh(host, 22, timeout) probe by probe.  data holds its locals
\* (host, timeout, iteration); trace.probes counts the calls of
\* is_ssh_available and trace.connected those that returned True.

\* the hosts the tasks pass: an address, a dns name, or the empty name
SshHosts == {AddrNames[a] : a \in 1..MaxAddrs} \cup {DnsNames[a] : a \in 1..MaxAddrs} \cup {""}

SshInit ==
    /\ instances \in StoreTables
    /\ file = NoFile
    /\ pc = "ws_loop"
    /\ op = "wait_for_ssh"
    /\ result = "running"
    /\ retval = PyNone
    /\ instance = NoInstance
    /\ \E h \in SshHosts, t \in 1..MaxTimeout :
          data = [host |-> h, timeout |-> t, iteration |-> 1]
    /\ trace = NewTrace(NoFile, "none", "none", FALSE, FALSE)

\* is_ssh_available(host, port): True when the connect succeeds, False on
\* socket.error
IsSshAvailable(insts, host) == IF Reachable(insts, host) THEN BOOLEAN ELSE {FALSE}

\* xrange(1, timeout) that also yields timeout
InRange_Inclusive(iteration, timeout) == iteration <= timeout

\* for iteration in xrange(1, timeout): the range still yields iteration
InRange(iteration, timeout) == iteration < timeout

\* one pass of the loop: return True when the probe connects, else sleep(1)
WsProbe ==
    /\ pc = "ws_loop"
    /\ InRange(data.iteration, data.timeout)
    /\ \E ok \in IsSshAvailable(instances, data.host) :
         IF ok
         THEN /\ pc' = "ws_done"
              /\ result' = "ok"
              /\ retval' = "True"
              /\ trace' = [trace EXCEPT !.probes = @ + 1, !.connected = @ + 1]
              /\ UNCHANGED data
         ELSE /\ data' = [data EXCEPT !.iteration = @ + 1]
              /\ trace' = [trace EXCEPT !.probes = @ + 1]
              /\ UNCHANGED <<pc, result, retval>>
    /\ UNCHANGED <<instances, file, op, instance>>

\* the range is exhausted: the function ends without a return statement
WsExhausted ==
    /\ pc = "ws_loop"
    /\ ~InRange(data.iteration, data.timeout)
    /\ pc' = "ws_done"
    /\ result' = "ok"
    /\ retval' = PyNone
    /\ UNCHANGED <<instances, file, op, instance, data, trace>>

SshNext == WsProbe \/ WsExhausted

\* the function keeps running: sleep(1) and the connect attempt return
SshSpec == SshInit /\ [][SshNext]_vars /\ WF_vars(SshNext)

\* ------------------------------------------------------------- properties
Done(o) == pc = "idle" /\ op = o /\ result = "ok"

Record == LoadStateFromDisk(file)

\* instances launched and not yet terminated
Live == {n \in Slots : instances[n].state \notin {"none", "terminated", "gone"}}

PollLabels == {"cs_poll", "up_poll", "down_poll", "de_poll"}

\* C1: create() on an existing record returns at once: no provider request
\* of any kind (no launch, no tag) is issued and data.json is left as it was.
C1_CreateIdempotent ==
    (op = "create" /\ trace.pre.exists) =>
        /\ Done("create")
        /\ trace.calls = NoCalls
        /\ trace.polls = 0
        /\ file = trace.pre

\* create() called again right after a create() that returned
C1_Witness ==
    /\ Done("create") /\ trace.pre.exists
    /\ trace.prev = <<"create", "ok">>

\* C2: after operations that all completed without failure at most one
\* launched instance is not yet terminated, and data.json exists exactly when
\* there is one.
C2_AtMostOneLive ==
    (pc = "idle" /\ ~trace.failed) =>
        /\ Cardinality(Live) <= 1
        /\ file.exists <=> Cardinality(Live) = 1

\* C3: a destroy() that returns leaves no data.json, and a destroy() that
\* finds no data.json returns without any provider call.
C3_DestroyClears ==
    /\ Done("destroy") => ~file.exists
    /\ (op = "destroy" /\ ~trace.pre.exists) =>
           /\ Done("destroy")
           /\ trace.calls = NoCalls
           /\ trace.polls = 0

\* destroy() right after a destroy() that removed a record
C3_Witness ==
    /\ Done("destroy") /\ ~trace.pre.exists
    /\ trace.prev = <<"destroy", "ok">> /\ trace.prevHad

\* C4: when up() returns on an existing record, data.json holds the address
\* the provider reports for the running instance, and wait_for_ssh probed
\* that address.
C4_UpRefreshesAddress ==
    (Done("up") /\ trace.pre.exists) =>
        /\ file.exists
        /\ LET n == SlotOf(Record["id"])
           IN /\ instances[n].state = "running"
              /\ Record["ip_address"] = IpOf(instances[n])
              /\ Record["state"] = "running"
        /\ trace.probeHost = Record["ip_address"]

\* up() returned and the address differs from the one stored before
C4_Witness ==
    /\ Done("up") /\ trace.pre.exists /\ file.exists
    /\ LoadStateFromDisk(trace.pre)["ip_address"] \notin {PyNone, Record["ip_address"]}

\* C5: when down() returns on an existing record, data.json shows the state
\* stopped.
C5_DownPersistsStopped ==
    (Done("down") /\ trace.pre.exists) =>
        file.exists /\ Record["state"] = "stopped"

\* C6: when delete_volume fails in destroy() after the instance was seen
\* terminated, data.json is removed all the same.
C6_VolumeFailureStillClears ==
    (pc = "idle" /\ op = "destroy" /\ result = "error"
        /\ trace.calls.delete_volume > 0 /\ trace.delObs = "terminated") =>
        ~file.exists

\* C7: destroy() requests delete_volume at most once, only for the volume
\* its describe found attached and only after the loop saw the instance
\* terminated; past that point it was requested exactly once if a volume was
\* found and never if the volume field is empty.
C7_DeleteVolumeOnce ==
    op = "destroy" =>
        /\ trace.calls.delete_volume <= 1
        /\ trace.calls.delete_volume = 1 =>
              /\ trace.delObs = "terminated"
              /\ trace.delVol = trace.vol
              /\ trace.vol # ""
        /\ trace.vol = "" => trace.calls.delete_volume = 0
        /\ (pc = "de_unlink" \/ (Done("destroy") /\ trace.pre.exists)) =>
              trace.calls.delete_volume = (IF trace.vol # "" THEN 1 ELSE 0)

\* destroy() returned after deleting the attached volume
C7_Witness ==
    /\ Done("destroy") /\ trace.pre.exists
    /\ trace.calls.delete_volume = 1 /\ trace.delVol = "vol-1"

\* C8: a task that is polling stops polling.
C8_PollsEnd == (pc \in PollLabels) ~> (pc \notin PollLabels)

\* C9: create() and up() write data.json only after wait_for_ssh returned True.
C9_ReadinessGate ==
    (op \in {"create", "up"} /\ trace.saved) => trace.ssh = "True"

\* C10: in create_server the readiness wait starts only when the last
\* observed state is running, after as many loop iterations as pending
\* observations.
C10_ProbeAfterRunning ==
    (trace.calls.launch > 0 /\ trace.ssh # "unset") =>
        /\ trace.probeObs = "running"
        /\ trace.polls = trace.pendingObs

\* C11: a create() (or an up() that found no data.json) that ends in an
\* exception at any of its steps leaves no data.json.
C11_FailedCreateLeavesNoRecord ==
    (pc = "idle" /\ op \in {"create", "up"} /\ ~trace.pre.exists /\ result = "error") =>
        ~file.exists

\* create() failed after the launch: an instance runs without a record
C11_Witness ==
    /\ pc = "idle" /\ op = "create" /\ result = "error"
    /\ trace.calls.launch = 1 /\ trace.ssh # "unset"
    /\ Live # {} /\ ~file.exists

\* C12: up(), destroy() and status() that find a record whose id the provider
\* no longer knows end without an exception.
C12_StaleRecordHandled ==
    (pc = "idle" /\ op \in {"up", "destroy", "status"} /\ trace.stale) =>
        result = "ok"

\* C13: a failed create_tags does not end create_server in an exception.
C13_TagBestEffort == trace.tagFailed => result # "error"

\* C14: rsync and ssh connect to an address obtained from a describe made in
\* the same task, which the provider reports at that moment.
C14_FreshAddress ==
    (op \in {"rsync", "ssh"} /\ trace.connHost # "") =>
        /\ trace.calls.describe > 0
        /\ trace.connReported

\* C15: whenever the save stops, a later load returns the complete record
\* stored before (False if there was none) or the complete new record.
C15_SaveAtomic ==
    pc = "sv_loaded" =>
        /\ result = "ok"
        /\ \/ retval = "False" /\ ~trace.pre.exists
           \/ /\ retval = "dict"
              /\ \/ trace.pre.exists /\ trace.loaded = LoadStateFromDisk(trace.pre)
                 \/ trace.saved /\ trace.loaded = data

\* C17: a load after a completed save returns a dictionary equal to the saved
\* one in every field, and a load without data.json returns False, not an
\* exception.
C17_RoundTrip ==
    pc = "sv_loaded" =>
        /\ trace.saved =>
              /\ result = "ok" /\ retval = "dict"
              /\ \A k \in 1..Len(Keys) : trace.loaded[Keys[k]] = data[Keys[k]]
              /\ DOMAIN trace.loaded = DOMAIN data
        /\ ~file.exists => (result = "ok" /\ retval = "False")

\* a record without address and without volume was saved and loaded
C17_Witness ==
    /\ pc = "sv_loaded" /\ trace.saved
    /\ data["volume"] = "" /\ data["ip_address"] = PyNone
    /\ trace.loaded["id"] = "i-1"

\* C16: down() without data.json returns (False) without an exception, makes
\* no provider request and leaves data.json absent.
C16_DownNoop ==
    (op = "down" /\ ~trace.pre.exists) =>
        /\ Done("down")
        /\ retval = "False"
        /\ trace.calls = NoCalls
        /\ trace.polls = 0
        /\ ~file.exists

\* down() without data.json while a launched instance is still live
C16_Witness ==
    /\ Done("down") /\ ~trace.pre.exists
    /\ Live # {}

\* C18: a step that writes data.json writes the describe of an instance the
\* provider knows at that moment (its id, state, addresses), and a write over
\* an existing file keeps the id.
C18_WrittenIsSnapshot ==
    [][(file' # file /\ file'.exists) =>
          /\ \E n \in Slots, volOk \in BOOLEAN :
                /\ Known(instances', n)
                /\ file'.doc = JsonDump(GetEc2Info(instances', n, volOk))
          /\ file.exists =>
                LoadStateFromDisk(file')["id"] = LoadStateFromDisk(file)["id"]]_vars

\* up() rewrote the record while the provider knows a second instance
C18_Witness ==
    /\ Done("up") /\ trace.pre.exists /\ trace.saved
    /\ Cardinality({n \in Slots : Known(instances, n)}) > 1
    /\ file.exists /\ Record["id"] = "i-2"

\* C19: data.json is removed only by destroy(), after terminate was requested
\* and the loop saw the instance terminated, when the provider no longer
\* has the recorded instance in a state before terminated.
C19_RemovedOnlyAfterTerminated ==
    [][(file.exists /\ ~file'.exists) =>
          /\ op = "destroy"
          /\ trace.calls.terminate = 1
          /\ instance.state = "terminated"
          /\ instances[SlotOf(Record["id"])].state \in {"terminated", "gone"}]_vars

\* destroy() removed the record of an instance it terminated
C19_Witness ==
    /\ Done("destroy") /\ trace.pre.exists /\ ~file.exists
    /\ trace.calls.terminate = 1 /\ trace.polls > 0

\* C20: up() without data.json takes the steps of create_server: it requests
\* no start (stop, terminate), launches one instance and, when it returns,
\* has written the describe of that instance.
C20_UpWithoutRecordCreates ==
    (op = "up" /\ ~trace.pre.exists) =>
        /\ pc \in {"idle", "cs_images", "cs_run", "cs_tags", "cs_poll", "cs_save"}
        /\ trace.calls.start = 0 /\ trace.calls.stop = 0 /\ trace.calls.terminate = 0
        /\ trace.calls.launch <= 1
        /\ Done("up") =>
              /\ trace.calls.launch = 1 /\ trace.calls.tag = 1
              /\ trace.calls.describe = 1 /\ trace.saved
              /\ file.exists
              /\ \E n \in Slots : Record["id"] = IdNames[n] /\ instances[n].state # "none"

\* up() without data.json returned with a record of a running instance
C20_Witness ==
    /\ Done("up") /\ ~trace.pre.exists /\ file.exists
    /\ Record["state"] = "running" /\ trace.ssh = "True"

\* C21: status() leaves data.json as it found it and makes no provider
\* request other than describes; without data.json it makes none at all.
C21_StatusReadOnly ==
    op = "status" =>
        /\ pc = "idle"
        /\ file = trace.pre
        /\ \A c \in {"launch", "tag", "start", "stop", "terminate", "delete_volume", "images"} :
              trace.calls[c] = 0
        /\ trace.polls = 0
        /\ ~trace.pre.exists => trace.calls = NoCalls

\* status() described a stopped instance whose record still says running
C21_Witness ==
    /\ op = "status" /\ result = "ok" /\ trace.calls.describe = 1
    /\ file.exists /\ Record["state"] = "running"
    /\ instances[SlotOf(Record["id"])].state = "stopped"

\* the safety part of C22
WaitForSshBounded ==
    /\ trace.probes <= data.timeout - 1
    /\ trace.connected <= 1
    /\ trace.connected = 1 => (pc = "ws_done" /\ retval = "True")
    /\ pc = "ws_done" =>
          /\ result = "ok"
          /\ retval = WaitForSsh(IF trace.connected = 1 THEN trace.probes ELSE 0,
                                 data.timeout)
          /\ retval # "True" => (retval = PyNone /\ trace.connected = 0
                                   /\ trace.probes = data.timeout - 1)

\* C22: wait_for_ssh ends; it makes at most timeout-1 probes, returns True at
\* the first probe that connects and probes no more, and returns None without
\* an exception after timeout-1 failed probes.
C22_WaitForSshTerminates == []WaitForSshBounded /\ <>(pc = "ws_done")

\* True was returned at the third probe after two failed ones
C22_Witness ==
    /\ pc = "ws_done" /\ retval = "True"
    /\ trace.probes = 3 /\ data.timeout = MaxTimeout

====
